---- MODULE Spec2Model ----
(***************************************************************************)
(* Session / intelligence orchestration pipeline of the honeypot agent:    *)
(* the session store, the scam scorer, the entity extractor, the stage     *)
(* engine, the callback policy and the POST /message handler composing     *)
(* them.  Message texts are strings; the regular expressions and keyword   *)
(* searches of the code are evaluated on their characters.                 *)
(***************************************************************************)
EXTENDS Integers, Sequences, FiniteSets, TLC

\* ------------------------------------------------------------------------
\* Bounds of the model
\* ------------------------------------------------------------------------
\* guard on totalMessages: no handler starts on a longer history
MaxMessages == 10
\* number of steps of the clock
MaxTicks == 2
\* largest message count passed to the callback policy and the stage engine
\* when they are called on their own
MaxCount == 10
\* longest list of values in a dict passed to merge_intelligence
MaxListLen == 2

\* ------------------------------------------------------------------------
\* Program constants
\* ------------------------------------------------------------------------
SESSION_TIMEOUT_MINUTES == 30
HEURISTIC_SCORE_THRESHOLD == 6
LLM_SCAM_CONFIDENCE == 75
MIN_CALLBACK_MESSAGES == 3
\* minutes added by one step of the clock: after one step a session is
\* exactly as old as the timeout, after two it is older
TickMinutes == SESSION_TIMEOUT_MINUTES

\* ------------------------------------------------------------------------
\* Characters and strings
\* ------------------------------------------------------------------------
Ch(s, i) == SubSeq(s, i, i)

DigitChars == {"0", "1", "2", "3", "4", "5", "6", "7", "8", "9"}
UpperChars == {"A", "B", "C", "D", "E", "F", "G", "H", "I", "J", "K", "L", "M",
               "N", "O", "P", "Q", "R", "S", "T", "U", "V", "W", "X", "Y", "Z"}
LowerChars == {"a", "b", "c", "d", "e", "f", "g", "h", "i", "j", "k", "l", "m",
               "n", "o", "p", "q", "r", "s", "t", "u", "v", "w", "x", "y", "z"}
LetterChars == UpperChars \cup LowerChars
\* \w of the re module, on the ASCII texts of the model
WordChars == LetterChars \cup DigitChars \cup {"_"}
\* \s
SpaceChars == {" "}

UpperSeq == <<"A", "B", "C", "D", "E", "F", "G", "H", "I", "J", "K", "L", "M",
              "N", "O", "P", "Q", "R", "S", "T", "U", "V", "W", "X", "Y", "Z">>
LowerSeq == <<"a", "b", "c", "d", "e", "f", "g", "h", "i", "j", "k", "l", "m",
              "n", "o", "p", "q", "r", "s", "t", "u", "v", "w", "x", "y", "z">>

\* str.lower() on one character
LowerChar(c) ==
    IF c \in UpperChars
    THEN LowerSeq[CHOOSE i \in 1..26 : UpperSeq[i] = c]
    ELSE c

\* str.lower(), character by character (halving keeps the recursion shallow)
RECURSIVE Lower(_)
Lower(s) ==
    IF Len(s) = 0 THEN ""
    ELSE IF Len(s) = 1 THEN LowerChar(s)
         ELSE LET h == Len(s) \div 2
              IN  Lower(SubSeq(s, 1, h)) \o Lower(SubSeq(s, h + 1, Len(s)))

\* the substring test `kw in s`
Contains(s, kw) ==
    \E i \in 1..(Len(s) - Len(kw) + 1) : SubSeq(s, i, i + Len(kw) - 1) = kw

\* s[i:] starts with p
StartsAt(s, i, p) ==
    /\ i + Len(p) - 1 <= Len(s)
    /\ SubSeq(s, i, i + Len(p) - 1) = p

\* is position i (1-based, i in 1..Len(s)+1) a \b of s
IsWordAt(s, i) == i >= 1 /\ i <= Len(s) /\ Ch(s, i) \in WordChars
Boundary(s, i) == IsWordAt(s, i - 1) # IsWordAt(s, i)

SetMin(S) == CHOOSE x \in S : \A y \in S : x <= y
SetMax(S) == CHOOSE x \in S : \A y \in S : x >= y
Max2(a, b) == IF a >= b THEN a ELSE b

\* last position of the run of characters of class cls that starts at i
\* (i - 1 when the character at i is not in cls)
RunEnd(s, i, cls) ==
    LET stops == {j \in i..Len(s) : Ch(s, j) \notin cls}
    IN  IF stops = {} THEN Max2(Len(s), i - 1) ELSE SetMin(stops) - 1

\* first position of the run of characters of class cls that ends at i
RunStart(s, i, cls) ==
    LET stops == {j \in 1..i : Ch(s, j) \notin cls}
    IN  IF stops = {} THEN 1 ELSE SetMax(stops) + 1

\* first position from i on whose character is in cls, Len(s) + 1 if none
NextIn(s, i, cls) ==
    LET hits == {j \in i..Len(s) : Ch(s, j) \in cls}
    IN  IF hits = {} THEN Len(s) + 1 ELSE SetMin(hits)

\* list(set(.)) : the elements of a set as a list without repetition.  The
\* iteration order of a Python set is unspecified; the model fixes one order
\* per set.
RECURSIVE SetToList(_)
SetToList(S) ==
    IF S = {} THEN <<>>
    ELSE LET x == CHOOSE y \in S : TRUE IN <<x>> \o SetToList(S \ {x})

\* set(.) of a list
ListToSet(l) == {l[i] : i \in 1..Len(l)}

\* l[:n]
Prefix(l, n) == SubSeq(l, 1, IF Len(l) < n THEN Len(l) ELSE n)

NoDuplicates(l) == \A i, j \in 1..Len(l) : l[i] = l[j] => i = j

\* ------------------------------------------------------------------------
\* Scam scorer: keyword heuristic (ai_service.py)
\* ------------------------------------------------------------------------
\* the keyword -> weight table, in the dict's insertion order
SCAM_KEYWORDS == <<
    <<"otp", 5>>, <<"one time password", 5>>, <<"kyc", 4>>,
    <<"verify your account", 4>>, <<"verify immediately", 5>>,
    <<"verification required", 4>>,
    <<"urgent", 3>>, <<"immediately", 3>>, <<"account blocked", 5>>,
    <<"account suspended", 5>>, <<"account will be blocked", 5>>,
    <<"limited time", 3>>, <<"expires today", 4>>, <<"last chance", 4>>,
    <<"bank officer", 4>>, <<"customer care", 3>>,
    <<"government official", 4>>, <<"tax department", 4>>, <<"police", 4>>,
    <<"refund", 3>>, <<"cashback", 2>>, <<"prize", 3>>, <<"lottery", 4>>,
    <<"won", 2>>, <<"claim", 2>>,
    <<"click the link", 5>>, <<"install app", 5>>, <<"anydesk", 5>>,
    <<"teamviewer", 5>>, <<"remote access", 5>>, <<"screen share", 4>>,
    <<"download", 3>>,
    <<"upi", 3>>, <<"bank account", 2>>, <<"credit card", 2>>,
    <<"debit card", 2>>, <<"cvv", 5>>, <<"pin", 4>>, <<"password", 4>>,
    <<"net banking", 3>> >>

RECURSIVE ScoreFrom(_, _)
ScoreFrom(lower_text, k) ==
    IF k > Len(SCAM_KEYWORDS) THEN [score |-> 0, matched_keywords |-> <<>>]
    ELSE LET rest == ScoreFrom(lower_text, k + 1)
             keyword == SCAM_KEYWORDS[k][1]
             weight == SCAM_KEYWORDS[k][2]
         IN  IF Contains(lower_text, keyword)
             THEN [score |-> weight + rest.score,
                   matched_keywords |-> <<keyword>> \o rest.matched_keywords]
             ELSE rest

heuristic_scam_score(text) == ScoreFrom(Lower(text), 1)

\* ------------------------------------------------------------------------
\* Entity extractor (extractor.py)
\* ------------------------------------------------------------------------
PunctChars == {"@", ".", "-", ":", "/", "!", "?", ",", "%", "+", "|", "'", "=",
               "&"}
\* every character a text of the model is made of
AllChars == WordChars \cup PunctChars \cup SpaceChars
\* [^\s]
NonSpaceChars == AllChars \ SpaceChars
\* [a-zA-Z0-9.\-_]
UpiLocalChars == LetterChars \cup DigitChars \cup {".", "-", "_"}
\* [A-Za-z0-9._%+-]
EmailLocalChars == LetterChars \cup DigitChars \cup {".", "_", "%", "+", "-"}
\* [A-Za-z0-9.-]
EmailDomainChars == LetterChars \cup DigitChars \cup {".", "-"}
\* [A-Z|a-z]
EmailTldChars == LetterChars \cup {"|"}

AllIn(w, cls) == \A i \in 1..Len(w) : Ch(w, i) \in cls

\* the maximal runs of \w characters of s from position i on, in order: a
\* pattern \b X \b whose X matches word characters only matches exactly the
\* runs that X matches as a whole
RECURSIVE WordRuns(_, _)
WordRuns(s, i) ==
    LET b == NextIn(s, i, WordChars)
        e == RunEnd(s, b, WordChars)
    IN  IF b > Len(s) THEN <<>>
        ELSE <<SubSeq(s, b, e)>> \o WordRuns(s, e + 1)

\* PHONE_REGEX = \b[6-9]\d{9}\b
MatchesPhone(w) ==
    /\ Len(w) = 10
    /\ Ch(w, 1) \in {"6", "7", "8", "9"}
    /\ AllIn(w, DigitChars)

\* BANK_ACCOUNT_REGEX = \b\d{9,18}\b
MatchesBankAccount(w) == Len(w) >= 9 /\ Len(w) <= 18 /\ AllIn(w, DigitChars)

\* IFSC_REGEX = \b[A-Z]{4}0[A-Z0-9]{6}\b
MatchesIfsc(w) ==
    /\ Len(w) = 11
    /\ AllIn(SubSeq(w, 1, 4), UpperChars)
    /\ Ch(w, 5) = "0"
    /\ AllIn(SubSeq(w, 6, 11), UpperChars \cup DigitChars)

FindPhones(text) == SelectSeq(WordRuns(text, 1), MatchesPhone)
FindBankAccounts(text) == SelectSeq(WordRuns(text, 1), MatchesBankAccount)
FindIfsc(text) == SelectSeq(WordRuns(text, 1), MatchesIfsc)

\* re.findall(URL_REGEX, s), URL_REGEX = https?://[^\s]+ , scanning from i
RECURSIVE FindUrls(_, _)
FindUrls(s, i) ==
    LET After(j) == IF StartsAt(s, j, "https://") THEN j + 8
                    ELSE IF StartsAt(s, j, "http://") THEN j + 7 ELSE 0
        hits == {j \in i..Len(s) :
                    After(j) > 0 /\ RunEnd(s, After(j), NonSpaceChars) >= After(j)}
    IN  IF hits = {} THEN <<>>
        ELSE LET b == SetMin(hits)
                 e == RunEnd(s, After(b), NonSpaceChars)
             IN  <<SubSeq(s, b, e)>> \o FindUrls(s, e + 1)

\* re.findall(UPI_REGEX, s), UPI_REGEX = \b[a-zA-Z0-9.\-_]{2,}@[a-zA-Z]{2,}\b :
\* i looks for the next "@", from is the end of the previous match.  The
\* local part starts at the first \b of the run before the "@", the domain is
\* the run of letters after it and must end at a \b.
RECURSIVE FindUpi(_, _, _)
FindUpi(s, i, from) ==
    LET at == NextIn(s, i, {"@"})
        l == Max2(RunStart(s, at - 1, UpiLocalChars), from)
        starts == {q \in l..(at - 2) : Boundary(s, q)}
        e == RunEnd(s, at + 1, LetterChars)
    IN  IF at > Len(s) THEN <<>>
        ELSE IF starts # {} /\ e - at >= 2 /\ Boundary(s, e + 1)
             THEN <<SubSeq(s, SetMin(starts), e)>> \o FindUpi(s, e + 1, e + 1)
             ELSE FindUpi(s, at + 1, from)

\* re.findall(EMAIL_REGEX, s),
\* EMAIL_REGEX = \b[A-Za-z0-9._%+-]+@[A-Za-z0-9.-]+\.[A-Z|a-z]{2,}\b :
\* the greedy domain gives the last "." (d) of the run after the "@" that is
\* followed by two or more top-level characters ending (e) at a \b
RECURSIVE FindEmails(_, _, _)
FindEmails(s, i, from) ==
    LET at == NextIn(s, i, {"@"})
        l == Max2(RunStart(s, at - 1, EmailLocalChars), from)
        starts == {q \in l..(at - 1) : Boundary(s, q)}
        r == RunEnd(s, at + 1, EmailDomainChars)
        Ends(d) == {e \in (d + 2)..RunEnd(s, d + 1, EmailTldChars) :
                       Boundary(s, e + 1)}
        dots == {d \in (at + 2)..r : Ch(s, d) = "." /\ Ends(d) # {}}
    IN  IF at > Len(s) THEN <<>>
        ELSE IF starts # {} /\ dots # {}
             THEN LET e == SetMax(Ends(SetMax(dots)))
                  IN  <<SubSeq(s, SetMin(starts), e)>> \o FindEmails(s, e + 1, e + 1)
             ELSE FindEmails(s, at + 1, from)

NoEntities ==
    [upi_ids |-> <<>>, urls |-> <<>>, ifsc_codes |-> <<>>,
     phone_numbers |-> <<>>, bank_accounts |-> <<>>, emails |-> <<>>]

\* extract_entities without the comparison against the phone numbers
extract_entities_NoPhoneFilter(text) ==
    IF text = "" THEN NoEntities
    ELSE LET phone_numbers == SetToList(ListToSet(FindPhones(text)))
             potential_accounts == FindBankAccounts(text)
             NotPhone(acc) == Len(acc) >= 9
         IN  [upi_ids |-> SetToList(ListToSet(FindUpi(text, 1, 1))),
              urls |-> SetToList(ListToSet(FindUrls(text, 1))),
              ifsc_codes |-> SetToList(ListToSet(FindIfsc(text))),
              phone_numbers |-> phone_numbers,
              bank_accounts |->
                  SetToList(ListToSet(SelectSeq(potential_accounts, NotPhone))),
              emails |-> SetToList(ListToSet(FindEmails(text, 1, 1)))]

extract_entities(text) ==
    IF text = "" THEN NoEntities
    ELSE LET phone_numbers == SetToList(ListToSet(FindPhones(text)))
             potential_accounts == FindBankAccounts(text)
             NotPhone(acc) == Len(acc) >= 9 /\ acc \notin ListToSet(phone_numbers)
         IN  [upi_ids |-> SetToList(ListToSet(FindUpi(text, 1, 1))),
              urls |-> SetToList(ListToSet(FindUrls(text, 1))),
              ifsc_codes |-> SetToList(ListToSet(FindIfsc(text))),
              phone_numbers |-> phone_numbers,
              bank_accounts |->
                  SetToList(ListToSet(SelectSeq(potential_accounts, NotPhone))),
              emails |-> SetToList(ListToSet(FindEmails(text, 1, 1)))]

\* d.get(key, [])
GetList(d, key) == IF key \in DOMAIN d THEN d[key] ELSE <<>>

\* merge_intelligence keeping the existing values of a key it already has
merge_intelligence_KeepExisting(existing, new) ==
    [key \in DOMAIN existing \cup DOMAIN new |->
        IF key \in DOMAIN existing THEN existing[key] ELSE new[key]]

merge_intelligence(existing, new) ==
    LET all_keys == DOMAIN existing \cup DOMAIN new
    IN  [key \in all_keys |->
            SetToList(ListToSet(GetList(existing, key) \o GetList(new, key)))]

\* ------------------------------------------------------------------------
\* Classifier collaborator and scam scorer (llm_service.py, ai_service.py)
\* ------------------------------------------------------------------------
\* Confidences are rationals with denominator 15 * 100: score / 15 and the
\* classifier's percent values are both exact in it.
ConfOfScore(score) == score * 100
ConfOfPercent(pct) == pct * 15

\* what running the local model can end in: a timeout, another exception,
\* output without a usable JSON object, a JSON object whose confidence is no
\* number, or a JSON object with label and confidence (label a string or
\* null, confidence in percent)
LlmRuns ==
    {[kind |-> "timeout", labelIsStr |-> TRUE, label |-> "", confidence |-> 0],
     [kind |-> "error", labelIsStr |-> TRUE, label |-> "", confidence |-> 0],
     [kind |-> "garbage", labelIsStr |-> TRUE, label |-> "", confidence |-> 0],
     \* a JSON object whose confidence float() rejects: the ValueError is not
     \* a JSONDecodeError and reaches the outer except
     [kind |-> "bad_confidence", labelIsStr |-> TRUE, label |-> "Scam",
      confidence |-> 0],
     [kind |-> "json", labelIsStr |-> TRUE, label |-> "Scam", confidence |-> 90],
     [kind |-> "json", labelIsStr |-> TRUE, label |-> "SCAM", confidence |-> 75],
     [kind |-> "json", labelIsStr |-> TRUE, label |-> "Scam", confidence |-> 60],
     [kind |-> "json", labelIsStr |-> TRUE, label |-> "Legitimate", confidence |-> 95],
     [kind |-> "json", labelIsStr |-> FALSE, label |-> "", confidence |-> 99]}

\* llm_fraud_classification answering Scam with full confidence when the run
\* fails
llm_fraud_classification_FailsAsScam(run) ==
    IF run.kind = "json"
    THEN [labelIsStr |-> run.labelIsStr, label |-> run.label,
          confidence |-> run.confidence]
    ELSE [labelIsStr |-> TRUE, label |-> "Scam", confidence |-> 100]

llm_fraud_classification(run) ==
    IF run.kind = "json"
    THEN [labelIsStr |-> run.labelIsStr, label |-> run.label,
          confidence |-> run.confidence]
    ELSE [labelIsStr |-> TRUE, label |-> "Uncertain", confidence |-> 0]

\* predict_scam with the heuristic verdict only above the threshold
predict_scam_AboveThreshold(text, run) ==
    LET heuristic == heuristic_scam_score(text)
        llm_result == llm_fraud_classification(run)
        \* label.lower() raises on a label that is no string: caught, falls through
        llm_says_scam ==
            /\ llm_result.labelIsStr
            /\ Lower(llm_result.label) = "scam"
            /\ llm_result.confidence >= LLM_SCAM_CONFIDENCE
    IN  IF heuristic.score > HEURISTIC_SCORE_THRESHOLD
        THEN [is_scam |-> TRUE,
              confidence |-> IF ConfOfScore(heuristic.score) < ConfOfPercent(95)
                             THEN ConfOfScore(heuristic.score)
                             ELSE ConfOfPercent(95),
              method |-> "heuristic",
              matched_keywords |-> heuristic.matched_keywords,
              llm_called |-> FALSE]
        ELSE IF llm_says_scam
             THEN [is_scam |-> TRUE,
                   confidence |-> ConfOfPercent(llm_result.confidence),
                   method |-> "llm",
                   \* details holds llm_result and heuristic: no matched_keywords key
                   matched_keywords |-> <<>>,
                   llm_called |-> TRUE]
             ELSE IF heuristic.score > 0
                  THEN [is_scam |-> FALSE,
                        confidence |-> ConfOfScore(heuristic.score),
                        method |-> "heuristic_low",
                        matched_keywords |-> heuristic.matched_keywords,
                        llm_called |-> TRUE]
                  ELSE [is_scam |-> FALSE, confidence |-> 0, method |-> "none",
                        matched_keywords |-> <<>>, llm_called |-> TRUE]

\* predict_scam(text, conversation_history); run is what the classifier call
\* ends in, if it is made.  llm_called records whether it was made.
predict_scam(text, run) ==
    LET heuristic == heuristic_scam_score(text)
        llm_result == llm_fraud_classification(run)
        \* label.lower() raises on a label that is no string: caught, falls through
        llm_says_scam ==
            /\ llm_result.labelIsStr
            /\ Lower(llm_result.label) = "scam"
            /\ llm_result.confidence >= LLM_SCAM_CONFIDENCE
    IN  IF heuristic.score >= HEURISTIC_SCORE_THRESHOLD
        THEN [is_scam |-> TRUE,
              confidence |-> IF ConfOfScore(heuristic.score) < ConfOfPercent(95)
                             THEN ConfOfScore(heuristic.score)
                             ELSE ConfOfPercent(95),
              method |-> "heuristic",
              matched_keywords |-> heuristic.matched_keywords,
              llm_called |-> FALSE]
        ELSE IF llm_says_scam
             THEN [is_scam |-> TRUE,
                   confidence |-> ConfOfPercent(llm_result.confidence),
                   method |-> "llm",
                   \* details holds llm_result and heuristic: no matched_keywords key
                   matched_keywords |-> <<>>,
                   llm_called |-> TRUE]
             ELSE IF heuristic.score > 0
                  THEN [is_scam |-> FALSE,
                        confidence |-> ConfOfScore(heuristic.score),
                        method |-> "heuristic_low",
                        matched_keywords |-> heuristic.matched_keywords,
                        llm_called |-> TRUE]
                  ELSE [is_scam |-> FALSE, confidence |-> 0, method |-> "none",
                        matched_keywords |-> <<>>, llm_called |-> TRUE]

\* ------------------------------------------------------------------------
\* Stage engine (conversation_engine.py)
\* ------------------------------------------------------------------------
\* determine_conversation_stage counting phone numbers as critical
determine_conversation_stage_PhoneCritical(message_count, extracted_intel) ==
    LET has_critical_info ==
            \/ Len(extracted_intel.upi_ids) > 0
            \/ Len(extracted_intel.urls) > 0
            \/ Len(extracted_intel.bank_accounts) > 0
            \/ Len(extracted_intel.phone_numbers) > 0
    IN  IF message_count <= 2 THEN "trust"
        ELSE IF message_count <= 6 \/ ~has_critical_info THEN "extract"
             ELSE "stall"

determine_conversation_stage(message_count, extracted_intel) ==
    LET has_critical_info ==
            \/ Len(extracted_intel.upi_ids) > 0
            \/ Len(extracted_intel.urls) > 0
            \/ Len(extracted_intel.bank_accounts) > 0
    IN  IF message_count <= 2 THEN "trust"
        ELSE IF message_count <= 6 \/ ~has_critical_info THEN "extract"
             ELSE "stall"

\* ------------------------------------------------------------------------
\* Callback policy (callback_service.py)
\* ------------------------------------------------------------------------
\* should_send_callback without the minimum of exchanged messages
should_send_callback_NoMinimum(session, max_turns) ==
    LET has_intelligence ==
            \/ Len(session.extractedIntelligence.upiIds) > 0
            \/ Len(session.extractedIntelligence.phishingLinks) > 0
            \/ Len(session.extractedIntelligence.phoneNumbers) > 0
            \/ Len(session.extractedIntelligence.bankAccounts) > 0
            \/ Len(session.extractedIntelligence.suspiciousKeywords) > 0
        reached_max_turns == session.totalMessages >= max_turns
    IN  /\ session.scamDetected
        /\ (has_intelligence \/ reached_max_turns)

should_send_callback(session, max_turns) ==
    LET has_intelligence ==
            \/ Len(session.extractedIntelligence.upiIds) > 0
            \/ Len(session.extractedIntelligence.phishingLinks) > 0
            \/ Len(session.extractedIntelligence.phoneNumbers) > 0
            \/ Len(session.extractedIntelligence.bankAccounts) > 0
            \/ Len(session.extractedIntelligence.suspiciousKeywords) > 0
        reached_max_turns == session.totalMessages >= max_turns
    IN  /\ session.scamDetected
        /\ session.totalMessages >= MIN_CALLBACK_MESSAGES
        /\ (has_intelligence \/ reached_max_turns)

\* sep.join(parts)
RECURSIVE Join(_, _)
Join(parts, sep) ==
    IF parts = <<>> THEN ""
    ELSE IF Len(parts) = 1 THEN parts[1]
         ELSE parts[1] \o sep \o Join(Tail(parts), sep)

build_agent_notes(session) ==
    LET intel == session.extractedIntelligence
        tactics ==
            IF intel.suspiciousKeywords # <<>>
            THEN <<"Used tactics: " \o Join(Prefix(intel.suspiciousKeywords, 5), ", ")>>
            ELSE <<>>
        requested_items ==
            (IF intel.upiIds # <<>>
             THEN <<"UPI IDs (" \o ToString(Len(intel.upiIds)) \o ")">> ELSE <<>>)
            \o (IF intel.phishingLinks # <<>>
                THEN <<"malicious links (" \o ToString(Len(intel.phishingLinks)) \o ")">>
                ELSE <<>>)
            \o (IF intel.bankAccounts # <<>>
                THEN <<"bank accounts (" \o ToString(Len(intel.bankAccounts)) \o ")">>
                ELSE <<>>)
        requested ==
            IF requested_items # <<>>
            THEN <<"Requested: " \o Join(requested_items, ", ")>> ELSE <<>>
        persistence ==
            IF session.totalMessages > 7
            THEN <<"Highly persistent (" \o ToString(session.totalMessages)
                   \o " messages)">>
            ELSE IF session.totalMessages > 4 THEN <<"Moderately persistent">>
                 ELSE <<>>
        notes == tactics \o requested \o persistence
    IN  IF notes # <<>> THEN Join(notes, ". ") \o "."
        ELSE "Limited engagement, minimal intelligence extracted."

\* ------------------------------------------------------------------------
\* Reply generator (conversation_engine.py)
\* ------------------------------------------------------------------------
\* the alternatives of the self-reference pattern, in the pattern's order
AI_SELF_REFERENCES ==
    <<"as an ai", "i am an ai", "language model", "i cannot", "i can't",
      "i'm an assistant">>

\* length of the first alternative that matches s at position j, ignoring
\* case; 0 when none does
SelfRefAt(s, j) ==
    LET ks == {k \in 1..Len(AI_SELF_REFERENCES) :
                  /\ j + Len(AI_SELF_REFERENCES[k]) - 1 <= Len(s)
                  /\ Lower(SubSeq(s, j, j + Len(AI_SELF_REFERENCES[k]) - 1))
                         = AI_SELF_REFERENCES[k]}
    IN  IF ks = {} THEN 0 ELSE Len(AI_SELF_REFERENCES[SetMin(ks)])

\* re.sub(pattern, "", s, flags=re.IGNORECASE) from position i on
RECURSIVE RemoveSelfRefs(_, _)
RemoveSelfRefs(s, i) ==
    LET hits == {j \in i..Len(s) : SelfRefAt(s, j) > 0}
    IN  IF hits = {} THEN SubSeq(s, i, Len(s))
        ELSE LET b == SetMin(hits)
             IN  SubSeq(s, i, b - 1) \o RemoveSelfRefs(s, b + SelfRefAt(s, b))

\* s.strip(chars)
Strip(s, chars) ==
    LET keep == {j \in 1..Len(s) : Ch(s, j) \notin chars}
    IN  IF keep = {} THEN "" ELSE SubSeq(s, SetMin(keep), SetMax(keep))

QuoteChars == {"\"", "'"}
SentenceEndChars == {".", "!", "?"}

\* re.split(r"[.!?]+", s) from position i on
RECURSIVE SplitSentences(_, _)
SplitSentences(s, i) ==
    LET b == NextIn(s, i, SentenceEndChars)
    IN  IF b > Len(s) THEN <<SubSeq(s, i, Len(s))>>
        ELSE <<SubSeq(s, i, b - 1)>>
             \o SplitSentences(s, RunEnd(s, b, SentenceEndChars) + 1)

\* s.rsplit(" ", 1)[0]
BeforeLastSpace(s) ==
    LET sp == {j \in 1..Len(s) : Ch(s, j) = " "}
    IN  IF sp = {} THEN s ELSE SubSeq(s, 1, SetMax(sp) - 1)

MAX_REPLY_CHARS == 250

_clean_llm_response(text) ==
    IF text = "" THEN ""
    ELSE LET t1 == RemoveSelfRefs(text, 1)
             t2 == Strip(Strip(t1, SpaceChars), QuoteChars)
             t3 == Strip(Join(Prefix(SplitSentences(t2, 1), 2), ". "), SpaceChars)
         IN  IF Len(t3) > MAX_REPLY_CHARS
             THEN BeforeLastSpace(SubSeq(t3, 1, MAX_REPLY_CHARS)) \o "..."
             ELSE t3

\* the reply returned when the request to the model raises (the typographic
\* apostrophe of the source is written ')
FALLBACK_REPLY == "Sorry, I'm not understanding. Can you explain again?"

\* what the request to the reply model ends in.  The try block reads
\* settings.OPENROUTER_API_KEY while building the request headers and the
\* Settings class (core/config.py) defines no such attribute, so every call
\* raises inside the try block and takes the except branch.
GenRuns == {[kind |-> "error", text |-> ""]}

generate_agent_reply(gen) ==
    IF gen.kind = "ok" THEN _clean_llm_response(gen.text) ELSE FALLBACK_REPLY

\* ------------------------------------------------------------------------
\* Inputs of the model
\* ------------------------------------------------------------------------
SessionIds == {"s1"}

\* above the heuristic threshold; a payment handle, a bank account, a link
\* and a phone number
T_SCAM ==
    "URGENT! Your bank account will be blocked today. Verify immediately: pay refund@scam or a/c 123456789012 at http://pay.example/x, call 9876543210."
\* below the heuristic threshold (one keyword of weight 2); one phone number,
\* twice
T_PAY ==
    "Claim it now, call 9123456780 or 9123456780 for help."

\* texts of incoming messages
Texts == {T_SCAM, T_PAY}
Senders == {"scammer"}
Timestamps == {0}

API_KEY == "honeypot-secret-key-2025-guvi-hackathon"
\* the x-api-key header: absent, wrong, right
ApiKeys == {"", "wrong-key", API_KEY}

\* what the POST to the report sink can end in
DeliveryRuns == {"ok", "http_error", "timeout", "error"}

\* settings.MAX_TURNS values (MAX_TURNS environment variable, default 10)
MaxTurnsValues == {2, 10}

\* texts passed to the extractor on their own: the texts of incoming
\* messages, the message of the test suite's second turn, a text with an
\* e-mail address, a phone number written with its country code and a long
\* account number, and a text without entities
T_UPI ==
    "Send your UPI ID to refund@scam. Also install AnyDesk app for remote verification."
T_MAIL ==
    "Write to help@okpay.com or call +91 9876543210, a/c 50100123456789."
T_HELLO == "Hello, how are you today?"
ExtractorTexts == Texts \cup {T_UPI, T_MAIL, T_HELLO}

\* what the request to the reply model ends in, as generate_agent_reply
\* handles it: an exception (timeout, HTTP error status, missing key in the
\* JSON), or a completion text
ReplyRuns ==
    {[kind |-> "error", text |-> ""],
     [kind |-> "ok", text |-> ""],
     [kind |-> "ok", text |-> "As an AI"],
     [kind |-> "ok", text |-> "  \"I cannot. Language model\"  "],
     [kind |-> "ok", text |-> "Ok sir, what is your name? Which bank? I will pay."],
     [kind |-> "ok", text |-> "As an AI, I am worried. Please tell me what to do"],
     \* a completion that names a payment handle and a phone number
     [kind |-> "ok", text |-> "Ok sir, I will pay to myupi@okbank and call 9876501234"]}


\* ------------------------------------------------------------------------
\* State
\* ------------------------------------------------------------------------
VARIABLES
    sessions,    \* SessionManager._sessions : session id -> SessionData
    now,         \* datetime.utcnow(), in minutes
    MAX_TURNS,   \* settings.MAX_TURNS
    response,    \* the response returned by the step just taken
    invoked,     \* the calls and log lines of the step just taken
    deliveries,  \* per id: send_final_result calls since its record was created
    inflight     \* requests the server accepted and has not answered yet

vars == <<sessions, now, MAX_TURNS, response, invoked, deliveries, inflight>>

\* no request in flight
NoRequests == [slot \in {} |-> slot]

EmptyIntelligence ==
    [bankAccounts |-> <<>>, upiIds |-> <<>>, phishingLinks |-> <<>>,
     phoneNumbers |-> <<>>, suspiciousKeywords |-> <<>>]

EmptyDict == [k \in {} |-> <<>>]

\* a step that calls no collaborator: scorer, classifier, extractor (number
\* of calls) and generator are the collaborators of the handler, payloads and
\* results the send_final_result calls, created and expired the log lines
\* "Created new session" and "Session ... expired, removing", auth the
\* argument of the verify_api_key call (no element when it is not called)
NoCalls ==
    [scorer |-> FALSE, classifier |-> FALSE, extractor |-> 0, generator |-> FALSE,
     payloads |-> <<>>, results |-> <<>>, created |-> FALSE, expired |-> FALSE,
     auth |-> <<>>]

\* a request that called verify_api_key(api_key) and nothing else
Requested(api_key) == [NoCalls EXCEPT !.auth = <<api_key>>]

NoResponse == [kind |-> "none", status |-> 0, sessionId |-> "", body |-> ""]

\* ------------------------------------------------------------------------
\* Session store (session_manager.py); store is the _sessions dict
\* ------------------------------------------------------------------------
Put(store, id, session) ==
    [x \in DOMAIN store \cup {id} |-> IF x = id THEN session ELSE store[x]]

Pop(store, id) == [x \in DOMAIN store \ {id} |-> store[x]]

\* Expired with the comparison including the timeout itself
Expired_AtTimeout(session, t) == t - session.createdAt >= SESSION_TIMEOUT_MINUTES

Expired(session, t) == t - session.createdAt > SESSION_TIMEOUT_MINUTES

\* get_session: the store after the lookup, whether a session is returned,
\* and whether the lookup removed an expired one
get_session(store, id, t) ==
    IF id \in DOMAIN store /\ Expired(store[id], t)
    THEN [store |-> Pop(store, id), found |-> FALSE, expired |-> TRUE]
    ELSE [store |-> store, found |-> id \in DOMAIN store, expired |-> FALSE]

create_session(id, t) ==
    [sessionId |-> id,
     conversationHistory |-> <<>>,
     stage |-> "trust",
     memory |-> EmptyDict,
     totalMessages |-> 0,
     scamDetected |-> FALSE,
     extractedIntelligence |-> EmptyIntelligence,
     suspiciousKeywords |-> <<>>,
     agentNotes |-> "",
     createdAt |-> t]

\* get_or_create_session without the lookup: a new record for every request
get_or_create_session_NoLookup(store, id, t) ==
    [session |-> create_session(id, t), created |-> TRUE, expired |-> FALSE]

\* get_or_create_session: the session the handler works on, and whether it
\* was created by this call
get_or_create_session(store, id, t) ==
    LET got == get_session(store, id, t)
    IN  IF got.found
        THEN [session |-> got.store[id], created |-> FALSE, expired |-> FALSE]
        ELSE [session |-> create_session(id, t), created |-> TRUE,
              expired |-> got.expired]

\* delete_session leaving the record in the store
delete_session_KeepsRecord(store, id) == store

delete_session(store, id) == IF id \in DOMAIN store THEN Pop(store, id) ELSE store

\* add_message counting incoming messages only
add_message_IncomingOnly(session, message) ==
    [session EXCEPT !.conversationHistory = Append(@, message),
                    !.totalMessages = IF message.sender = "user" THEN @ ELSE @ + 1]

add_message(session, message) ==
    [session EXCEPT !.conversationHistory = Append(@, message),
                    !.totalMessages = @ + 1]

\* Merged without the set
Merged_Concat(existing, new) == existing \o new

\* existing list updated with the new values, through a set
Merged(existing, new) == SetToList(ListToSet(existing) \cup ListToSet(new))

\* update_intelligence replacing each category by the new values
update_intelligence_Overwrite(session, new_intel) ==
    [session EXCEPT !.extractedIntelligence =
        [@ EXCEPT !.upiIds = new_intel.upi_ids,
                  !.phishingLinks = new_intel.urls,
                  !.phoneNumbers = new_intel.phone_numbers,
                  !.bankAccounts = new_intel.bank_accounts]]

update_intelligence(session, new_intel) ==
    LET old == session.extractedIntelligence
    IN  [session EXCEPT !.extractedIntelligence =
            [old EXCEPT
                !.upiIds = IF new_intel.upi_ids # <<>>
                           THEN Merged(@, new_intel.upi_ids) ELSE @,
                !.phishingLinks = IF new_intel.urls # <<>>
                                  THEN Merged(@, new_intel.urls) ELSE @,
                !.phoneNumbers = IF new_intel.phone_numbers # <<>>
                                 THEN Merged(@, new_intel.phone_numbers) ELSE @,
                !.bankAccounts = IF new_intel.bank_accounts # <<>>
                                 THEN Merged(@, new_intel.bank_accounts) ELSE @]]

get_session_count(store) == Cardinality(DOMAIN store)

\* ------------------------------------------------------------------------
\* POST /message (honeypot.py, handle_message).  The handler is a coroutine
\* without a suspension point after authentication, so one request runs from
\* the lookup to the response without interleaving.
\* ------------------------------------------------------------------------
\* the pure functions of the pipeline on the model's inputs, tabulated
Generated == [gen \in GenRuns \cup ReplyRuns |-> generate_agent_reply(gen)]
Replies == {Generated[gen] : gen \in GenRuns \cup ReplyRuns}
Extracted == [t \in ExtractorTexts \cup Replies |-> extract_entities(t)]
Scored == [t \in Texts |-> [run \in LlmRuns |-> predict_scam(t, run)]]

CANNED_REPLY == "Thank you for the message."

\* verify_api_key letting a request without the header through
verify_api_key_AcceptsMissing(api_key) ==
    IF api_key = "" THEN 0 ELSE IF api_key # API_KEY THEN 403 ELSE 0

\* verify_api_key: 0 when the key is accepted, else the status raised
verify_api_key(api_key) ==
    IF api_key = "" THEN 401 ELSE IF api_key # API_KEY THEN 403 ELSE 0

AuthError(code) ==
    [kind |-> "error", status |-> code, sessionId |-> "",
     body |-> IF code = 401 THEN "API key is required. Include 'x-api-key' header."
              ELSE "Invalid API key"]

MessageResponse(id, reply) ==
    [kind |-> "message", status |-> 200, sessionId |-> id,
     body |-> [status |-> "success", reply |-> reply]]

\* Detect with the scorer run on every message, its verdict replacing the flag
Detect_Rescoring(store, t, id, message, run) ==
    LET goc == get_or_create_session(store, id, t)
        s1 == add_message(goc.session, message)
        detection_result == Scored[message.text][run]
        s2 == [s1 EXCEPT
                 !.scamDetected = detection_result.is_scam,
                 !.extractedIntelligence.suspiciousKeywords =
                     IF detection_result.is_scam
                        /\ detection_result.matched_keywords # <<>>
                     THEN SetToList(ListToSet(@ \o detection_result.matched_keywords))
                     ELSE @]
    IN  [session |-> s2, created |-> goc.created, expired |-> goc.expired,
         scorer |-> TRUE, classifier |-> detection_result.llm_called]

\* Detect with the matched keywords stored whatever the verdict
Detect_KeepLowKeywords(store, t, id, message, run) ==
    LET goc == get_or_create_session(store, id, t)
        s1 == add_message(goc.session, message)
        scoring == ~s1.scamDetected
        detection_result == Scored[message.text][run]
        s2 == IF scoring
              THEN [s1 EXCEPT
                      !.scamDetected = detection_result.is_scam,
                      !.extractedIntelligence.suspiciousKeywords =
                          IF detection_result.matched_keywords # <<>>
                          THEN SetToList(ListToSet(
                                   @ \o detection_result.matched_keywords))
                          ELSE @]
              ELSE s1
    IN  [session |-> s2, created |-> goc.created, expired |-> goc.expired,
         scorer |-> scoring,
         classifier |-> scoring /\ detection_result.llm_called]

\* lines 55-92: lookup, append of the incoming message, scam detection
Detect(store, t, id, message, run) ==
    LET goc == get_or_create_session(store, id, t)
        s1 == add_message(goc.session, message)
        scoring == ~s1.scamDetected
        detection_result == Scored[message.text][run]
        s2 == IF scoring /\ detection_result.is_scam
              THEN [s1 EXCEPT
                      !.scamDetected = TRUE,
                      !.extractedIntelligence.suspiciousKeywords =
                          IF detection_result.matched_keywords # <<>>
                          THEN SetToList(ListToSet(
                                   @ \o detection_result.matched_keywords))
                          ELSE @]
              ELSE s1
    IN  [session |-> s2, created |-> goc.created, expired |-> goc.expired,
         scorer |-> scoring,
         classifier |-> scoring /\ detection_result.llm_called]

\* lines 109-113: the memory dict used for the prompt
UpdateMemory(memory, extracted) ==
    LET filled == {k \in DOMAIN extracted : extracted[k] # <<>>}
    IN  [k \in DOMAIN memory \cup filled |->
            IF k \in filled
            THEN SetToList(ListToSet(
                     (IF k \in DOMAIN memory THEN memory[k] ELSE <<>>)
                     \o extracted[k]))
            ELSE memory[k]]

\* Engage without the append of the agent's reply to the history
Engage_ReplyNotStored(session, message, gen) ==
    LET extracted == Extracted[message.text]
        s3 == update_intelligence(session, extracted)
        s4 == [s3 EXCEPT
                 !.memory = UpdateMemory(@, extracted),
                 !.stage = determine_conversation_stage(s3.totalMessages, extracted)]
        agent_reply == Generated[gen]
    IN  [session |-> s4, reply |-> agent_reply]

\* Engage with the entities of the agent's reply merged into the session
Engage_MergesReply(session, message, gen) ==
    LET extracted == Extracted[message.text]
        s3 == update_intelligence(session, extracted)
        s4 == [s3 EXCEPT
                 !.memory = UpdateMemory(@, extracted),
                 !.stage = determine_conversation_stage(s3.totalMessages, extracted)]
        agent_reply == Generated[gen]
        agent_message == [sender |-> "user", text |-> agent_reply,
                          timestamp |-> message.timestamp + 1000]
    IN  [session |-> update_intelligence(add_message(s4, agent_message),
                                         Extracted[agent_reply]),
         reply |-> agent_reply]

\* lines 102-151: extraction, merge, stage, reply, append of the reply
Engage(session, message, gen) ==
    LET extracted == Extracted[message.text]
        s3 == update_intelligence(session, extracted)
        s4 == [s3 EXCEPT
                 !.memory = UpdateMemory(@, extracted),
                 !.stage = determine_conversation_stage(s3.totalMessages, extracted)]
        agent_reply == Generated[gen]
        agent_message == [sender |-> "user", text |-> agent_reply,
                          timestamp |-> message.timestamp + 1000]
    IN  [session |-> add_message(s4, agent_message), reply |-> agent_reply]

\* Payload without the session's flag: scamDetected false in every report
Payload_Unflagged(session) ==
    [sessionId |-> session.sessionId,
     scamDetected |-> FALSE,
     totalMessagesExchanged |-> session.totalMessages,
     extractedIntelligence |-> session.extractedIntelligence,
     agentNotes |-> IF session.agentNotes # "" THEN session.agentNotes
                    ELSE "Conversation completed"]

\* send_final_result: the payload posted to the report sink
Payload(session) ==
    [sessionId |-> session.sessionId,
     scamDetected |-> session.scamDetected,
     totalMessagesExchanged |-> session.totalMessages,
     extractedIntelligence |-> session.extractedIntelligence,
     agentNotes |-> IF session.agentNotes # "" THEN session.agentNotes
                    ELSE "Conversation completed"]

\* send_final_result answering True whatever the POST ends in
send_final_result_IgnoresOutcome(delivery) == TRUE

\* send_final_result: its boolean result
send_final_result(delivery) == delivery = "ok"

\* Finalize without the max-turns check
Finalize_NoMaxTurns(session, max_turns) ==
    LET first == should_send_callback(session, max_turns)
        s6 == IF first
              THEN [session EXCEPT !.agentNotes = build_agent_notes(session)]
              ELSE session
        second == FALSE
        s7 == IF second
              THEN [s6 EXCEPT !.agentNotes = build_agent_notes(s6)]
              ELSE s6
    IN  [session |-> s7,
         payloads |-> (IF first THEN <<Payload(s6)>> ELSE <<>>)
                      \o (IF second THEN <<Payload(s7)>> ELSE <<>>)]

\* Finalize with a max-turns branch that does not look at the notes
Finalize_NoNotesCheck(session, max_turns) ==
    LET first == should_send_callback(session, max_turns)
        s6 == IF first
              THEN [session EXCEPT !.agentNotes = build_agent_notes(session)]
              ELSE session
        second == /\ s6.totalMessages >= max_turns
                  /\ s6.scamDetected
        s7 == IF second
              THEN [s6 EXCEPT !.agentNotes = build_agent_notes(s6)]
              ELSE s6
    IN  [session |-> s7,
         payloads |-> (IF first THEN <<Payload(s6)>> ELSE <<>>)
                      \o (IF second THEN <<Payload(s7)>> ELSE <<>>)]

\* lines 153-176: the final callback and the max-turns check
Finalize(session, max_turns) ==
    LET first == should_send_callback(session, max_turns)
        s6 == IF first
              THEN [session EXCEPT !.agentNotes = build_agent_notes(session)]
              ELSE session
        second == /\ s6.totalMessages >= max_turns
                  /\ s6.scamDetected
                  /\ s6.agentNotes = ""
        s7 == IF second
              THEN [s6 EXCEPT !.agentNotes = build_agent_notes(s6)]
              ELSE s6
    IN  [session |-> s7,
         payloads |-> (IF first THEN <<Payload(s6)>> ELSE <<>>)
                      \o (IF second THEN <<Payload(s7)>> ELSE <<>>)]

HandleMessage(id, api_key, message) ==
    IF verify_api_key(api_key) # 0
    THEN /\ response' = AuthError(verify_api_key(api_key))
         /\ invoked' = Requested(api_key)
         /\ UNCHANGED <<sessions, now, MAX_TURNS, deliveries>>
    ELSE LET goc == get_or_create_session(sessions, id, now)
             \* the classifier runs only for an unconfirmed session whose
             \* text stays below the heuristic threshold
             anyRun == CHOOSE run \in LlmRuns : TRUE
             runs == IF Detect(sessions, now, id, message, anyRun).classifier
                     THEN LlmRuns ELSE {anyRun}
         IN  /\ goc.session.totalMessages + 2 <= MaxMessages
             /\ \E run \in runs :
                  LET d == Detect(sessions, now, id, message, run)
                  IN  IF ~d.session.scamDetected
                      THEN /\ sessions' = Put(sessions, id, d.session)
                           /\ response' = MessageResponse(id, CANNED_REPLY)
                           /\ invoked' = [Requested(api_key) EXCEPT
                                             !.scorer = d.scorer,
                                             !.classifier = d.classifier,
                                             !.created = d.created,
                                             !.expired = d.expired]
                           /\ deliveries' = [deliveries EXCEPT
                                                ![id] = IF d.created THEN 0 ELSE @]
                      ELSE \E gen \in GenRuns :
                             LET e == Engage(d.session, message, gen)
                                 f == Finalize(e.session, MAX_TURNS)
                                 n == Len(f.payloads)
                             IN  \E outcome \in [1..n -> DeliveryRuns] :
                                   /\ sessions' = Put(sessions, id, f.session)
                                   /\ response' = MessageResponse(id, e.reply)
                                   /\ invoked' =
                                        [scorer |-> d.scorer,
                                         classifier |-> d.classifier,
                                         extractor |-> 2,
                                         generator |-> TRUE,
                                         payloads |-> f.payloads,
                                         results |-> [i \in 1..n |->
                                             send_final_result(outcome[i])],
                                         created |-> d.created,
                                         expired |-> d.expired,
                                         auth |-> <<api_key>>]
                                   /\ deliveries' = [deliveries EXCEPT
                                        ![id] = (IF d.created THEN 0 ELSE @) + n]
             /\ UNCHANGED <<now, MAX_TURNS>>

\* ------------------------------------------------------------------------
\* GET /session/{id}, DELETE /session/{id}, GET /stats
\* ------------------------------------------------------------------------
Snapshot(session) ==
    [sessionId |-> session.sessionId,
     scamDetected |-> session.scamDetected,
     totalMessages |-> session.totalMessages,
     stage |-> session.stage,
     extractedIntelligence |-> session.extractedIntelligence,
     conversationLength |-> Len(session.conversationHistory)]

GetSessionInfo(id, api_key) ==
    /\ UNCHANGED <<now, MAX_TURNS, deliveries>>
    /\ IF verify_api_key(api_key) # 0
       THEN /\ response' = AuthError(verify_api_key(api_key))
            /\ invoked' = Requested(api_key)
            /\ UNCHANGED sessions
       ELSE LET got == get_session(sessions, id, now)
            IN  /\ sessions' = got.store
                /\ invoked' = [Requested(api_key) EXCEPT !.expired = got.expired]
                /\ response' =
                     IF got.found
                     THEN [kind |-> "session", status |-> 200, sessionId |-> id,
                           body |-> Snapshot(got.store[id])]
                     ELSE [kind |-> "error", status |-> 404, sessionId |-> id,
                           body |-> "Session not found"]

DeleteSession(id, api_key) ==
    /\ invoked' = Requested(api_key)
    /\ UNCHANGED <<now, MAX_TURNS, deliveries>>
    /\ IF verify_api_key(api_key) # 0
       THEN /\ response' = AuthError(verify_api_key(api_key))
            /\ UNCHANGED sessions
       ELSE /\ sessions' = delete_session(sessions, id)
            /\ response' = [kind |-> "deleted", status |-> 200, sessionId |-> id,
                            body |-> "Session " \o id \o " deleted"]

GetStats(api_key) ==
    /\ invoked' = Requested(api_key)
    /\ UNCHANGED <<sessions, now, MAX_TURNS, deliveries>>
    /\ response' =
         IF verify_api_key(api_key) # 0
         THEN AuthError(verify_api_key(api_key))
         ELSE [kind |-> "stats", status |-> 200, sessionId |-> "",
               body |-> [activeSessions |-> get_session_count(sessions),
                         maxTurns |-> MAX_TURNS,
                         apiVersion |-> "1.0.0"]]

\* time passes
Tick ==
    /\ now < MaxTicks * TickMinutes
    /\ now' = now + TickMinutes
    /\ response' = NoResponse
    /\ invoked' = NoCalls
    /\ UNCHANGED <<sessions, MAX_TURNS, deliveries>>

\* ------------------------------------------------------------------------
\* Specification
\* ------------------------------------------------------------------------
Messages == [sender : Senders, text : Texts, timestamp : Timestamps]

Init ==
    /\ sessions = [x \in {} |-> x]
    /\ now = 0
    /\ MAX_TURNS \in MaxTurnsValues
    /\ response = NoResponse
    /\ invoked = NoCalls
    /\ deliveries = [id \in SessionIds |-> 0]
    /\ inflight = NoRequests

\* one request at a time: each is answered before the next is accepted
Next ==
    \/ \E id \in SessionIds, api_key \in ApiKeys, message \in Messages :
          HandleMessage(id, api_key, message) /\ UNCHANGED inflight
    \/ \E id \in SessionIds, api_key \in ApiKeys :
          GetSessionInfo(id, api_key) /\ UNCHANGED inflight
    \/ \E id \in SessionIds, api_key \in ApiKeys :
          DeleteSession(id, api_key) /\ UNCHANGED inflight
    \/ \E api_key \in ApiKeys : GetStats(api_key) /\ UNCHANGED inflight
    \/ Tick /\ UNCHANGED inflight

Spec == Init /\ [][Next]_vars

\* ------------------------------------------------------------------------
\* The pure functions of the pipeline called on their own.  A behaviour is
\* one call: the initial state holds the function's name and arguments, the
\* step applies the function and holds its result.
\* ------------------------------------------------------------------------
Call(fn, args) ==
    [kind |-> "call", status |-> 0, sessionId |-> "",
     body |-> [fn |-> fn, args |-> args]]

Return(fn, args, result) ==
    [kind |-> "return", status |-> 0, sessionId |-> "",
     body |-> [fn |-> fn, args |-> args, result |-> result]]

Calling(fn) == response.kind = "call" /\ response.body.fn = fn
Returned(fn) == response.kind = "return" /\ response.body.fn = fn

\* a list field: empty or holding one value
ListChoices == {<<>>, <<"x">>}

\* sessions passed to should_send_callback
PolicySessions ==
    {[create_session("s1", 0) EXCEPT
         !.scamDetected = scam,
         !.totalMessages = n,
         !.conversationHistory =
             [i \in 1..n |-> [sender |-> IF i % 2 = 1 THEN "scammer" ELSE "user",
                              text |-> "x", timestamp |-> 0]],
         !.extractedIntelligence = intel] :
     scam \in BOOLEAN, n \in 0..MaxCount,
     intel \in [bankAccounts : ListChoices, upiIds : ListChoices,
                phishingLinks : ListChoices, phoneNumbers : ListChoices,
                suspiciousKeywords : ListChoices]}

\* arguments of determine_conversation_stage
StageArgs ==
    [message_count : 0..MaxCount,
     extracted_intel : [upi_ids : ListChoices, urls : ListChoices,
                        ifsc_codes : ListChoices, phone_numbers : ListChoices,
                        bank_accounts : ListChoices, emails : ListChoices]]

\* texts passed to predict_scam: above, below and at the heuristic
\* threshold, and without any keyword
T_FIVE == "Please share the OTP"
T_SIX == "You won a lottery"
ScorerTexts == Texts \cup {T_HELLO, T_FIVE, T_SIX}
\* what the classifier run can end in, with a confidence outside [0, 1]
\* (float() accepts any number the model writes)
ScorerRuns ==
    LlmRuns \cup
    {[kind |-> "json", labelIsStr |-> TRUE, label |-> "Scam", confidence |-> 150],
     [kind |-> "json", labelIsStr |-> TRUE, label |-> "Scam", confidence |-> -50],
     [kind |-> "json", labelIsStr |-> TRUE, label |-> "Legitimate",
      confidence |-> 150]}
ScorerArgs == [text : ScorerTexts, run : ScorerRuns]

\* dicts passed to merge_intelligence
MergeKeys == {"upi_ids", "urls"}
MergeValues == {"a", "b"}
MergeLists == UNION {[1..k -> MergeValues] : k \in 0..MaxListLen}
MergeDicts == UNION {[keys -> MergeLists] : keys \in SUBSET MergeKeys}
MergeArgs == [existing : MergeDicts, new : MergeDicts]

\* confirmed sessions an engaged turn works on, the incoming message already
\* appended: after n messages, with the intelligence of an earlier message
TurnCounts == {1, 3, 9}
EarlierTexts == {T_HELLO, T_SCAM, T_MAIL}
TurnSessions ==
    {update_intelligence(
         [create_session("s1", 0) EXCEPT
             !.scamDetected = TRUE,
             !.totalMessages = n,
             !.conversationHistory =
                 [i \in 1..n |-> [sender |-> IF i % 2 = 1 THEN "scammer" ELSE "user",
                                  text |-> "x", timestamp |-> 0]]],
         Extracted[t]) :
     n \in TurnCounts, t \in EarlierTexts}
ExtractArgs == [session : TurnSessions, text : ExtractorTexts]
TurnArgs ==
    [session : TurnSessions,
     message : [sender : Senders, text : ExtractorTexts, timestamp : Timestamps],
     gen : ReplyRuns]

FnScored == [t \in ScorerTexts |-> [run \in ScorerRuns |-> predict_scam(t, run)]]
FnGenerated == [gen \in ReplyRuns |-> generate_agent_reply(gen)]

FnInit ==
    /\ sessions = [x \in {} |-> x]
    /\ now = 0
    /\ MAX_TURNS \in MaxTurnsValues
    /\ invoked = NoCalls
    /\ deliveries = [id \in SessionIds |-> 0]
    /\ inflight = NoRequests
    /\ \/ \E session \in PolicySessions :
             response = Call("should_send_callback", [session |-> session])
       \/ \E args \in StageArgs :
             response = Call("determine_conversation_stage", args)
       \/ \E args \in ScorerArgs : response = Call("predict_scam", args)
       \/ \E gen \in ReplyRuns :
             response = Call("generate_agent_reply", [gen |-> gen])
       \/ \E args \in MergeArgs : response = Call("merge_intelligence", args)
       \/ \E args \in ExtractArgs : response = Call("extract_and_merge", args)
       \/ \E args \in TurnArgs : response = Call("engaged_turn", args)

CallShouldSendCallback ==
    /\ Calling("should_send_callback")
    /\ response' = Return(response.body.fn, response.body.args,
                          should_send_callback(response.body.args.session,
                                               MAX_TURNS))
    /\ invoked' = NoCalls
    /\ UNCHANGED <<sessions, now, MAX_TURNS, deliveries>>

CallDetermineConversationStage ==
    /\ Calling("determine_conversation_stage")
    /\ response' = Return(response.body.fn, response.body.args,
                          determine_conversation_stage(
                              response.body.args.message_count,
                              response.body.args.extracted_intel))
    /\ invoked' = NoCalls
    /\ UNCHANGED <<sessions, now, MAX_TURNS, deliveries>>

\* the result of predict_scam, with what the classifier returned to it (no
\* element when it was not called); invoked holds whether it was called
CallPredictScam ==
    /\ Calling("predict_scam")
    /\ LET args == response.body.args
           result == FnScored[args.text][args.run]
       IN  /\ response' = Return(response.body.fn, args,
                                 [is_scam |-> result.is_scam,
                                  confidence |-> result.confidence,
                                  method |-> result.method,
                                  llm_result |->
                                      IF result.llm_called
                                      THEN <<llm_fraud_classification(args.run)>>
                                      ELSE <<>>])
           /\ invoked' = [NoCalls EXCEPT !.scorer = TRUE,
                                         !.classifier = result.llm_called]
    /\ UNCHANGED <<sessions, now, MAX_TURNS, deliveries>>

CallGenerateAgentReply ==
    /\ Calling("generate_agent_reply")
    /\ response' = Return(response.body.fn, response.body.args,
                          FnGenerated[response.body.args.gen])
    /\ invoked' = [NoCalls EXCEPT !.generator = TRUE]
    /\ UNCHANGED <<sessions, now, MAX_TURNS, deliveries>>

CallMergeIntelligence ==
    /\ Calling("merge_intelligence")
    /\ response' = Return(response.body.fn, response.body.args,
                          merge_intelligence(response.body.args.existing,
                                             response.body.args.new))
    /\ invoked' = NoCalls
    /\ UNCHANGED <<sessions, now, MAX_TURNS, deliveries>>

\* lines 103-107 of the handler: the extractor on the incoming text, then
\* update_intelligence on the session
CallExtractAndMerge ==
    /\ Calling("extract_and_merge")
    /\ LET args == response.body.args
           extracted == Extracted[args.text]
       IN  response' = Return(response.body.fn, args,
                              [extracted |-> extracted,
                               session |-> update_intelligence(args.session,
                                                               extracted)])
    /\ invoked' = [NoCalls EXCEPT !.extractor = 1]
    /\ UNCHANGED <<sessions, now, MAX_TURNS, deliveries>>

\* lines 102-176 of the handler: the engaged turn on a confirmed session,
\* whatever the reply model answers
CallEngagedTurn ==
    /\ Calling("engaged_turn")
    /\ LET args == response.body.args
           e == Engage(args.session, args.message, args.gen)
           f == Finalize(e.session, MAX_TURNS)
       IN  /\ response' = Return(response.body.fn, args,
                                 [session |-> f.session, reply |-> e.reply,
                                  payloads |-> f.payloads])
           /\ invoked' = [NoCalls EXCEPT !.extractor = 2, !.generator = TRUE,
                                         !.payloads = f.payloads]
    /\ UNCHANGED <<sessions, now, MAX_TURNS, deliveries>>

FnNext ==
    \/ CallShouldSendCallback /\ UNCHANGED inflight
    \/ CallDetermineConversationStage /\ UNCHANGED inflight
    \/ CallPredictScam /\ UNCHANGED inflight
    \/ CallGenerateAgentReply /\ UNCHANGED inflight
    \/ CallMergeIntelligence /\ UNCHANGED inflight
    \/ CallExtractAndMerge /\ UNCHANGED inflight
    \/ CallEngagedTurn /\ UNCHANGED inflight

FnSpec == FnInit /\ [][FnNext]_vars

\* ------------------------------------------------------------------------
\* Concurrent requests.  The server runs the handlers as coroutines of one
\* event loop.  Every handler of the router is an "async def" whose only
\* await is verify_api_key, a coroutine that never suspends, and whose
\* collaborators (subprocess.run, requests.post) are blocking calls: once
\* the loop starts a handler it runs to its return, and requests that are in
\* flight together are served one whole handler at a time, in any order.
\* ------------------------------------------------------------------------
\* requests in flight at once
MaxInflight == 2
\* messages of a session while requests run concurrently
MaxLoopMessages == 4

NoMessage == [sender |-> "", text |-> "", timestamp |-> 0]

\* the requests clients send concurrently, with the right key
Requests ==
    [op : {"message"}, id : SessionIds, api_key : {API_KEY}, message : Messages]
    \cup [op : {"get", "delete"}, id : SessionIds, api_key : {API_KEY},
          message : {NoMessage}]

\* the slots of the requests not served yet
Pending == {slot \in DOMAIN inflight : ~inflight[slot].done}

\* the messages the pending requests for id will append, replies included
PendingMessages(id) ==
    2 * Cardinality({slot \in Pending : /\ inflight[slot].request.id = id
                                        /\ inflight[slot].request.op = "message"})

LoopInit ==
    /\ sessions = [x \in {} |-> x]
    /\ now = 0
    /\ MAX_TURNS \in MaxTurnsValues
    /\ response = NoResponse
    /\ invoked = NoCalls
    /\ deliveries = [id \in SessionIds |-> 0]
    /\ inflight = NoRequests

\* the server accepts a request while none of the requests in flight has
\* been served
Accept(request) ==
    LET slot == Cardinality(DOMAIN inflight) + 1
        held == IF request.id \in DOMAIN sessions
                THEN sessions[request.id].totalMessages ELSE 0
    IN  /\ slot <= MaxInflight
        /\ Pending = DOMAIN inflight
        /\ request.op = "message"
              => held + PendingMessages(request.id) + 2 <= MaxLoopMessages
        /\ inflight' = [s \in DOMAIN inflight \cup {slot} |->
                           IF s = slot THEN [request |-> request, done |-> FALSE]
                           ELSE inflight[s]]
        /\ response' = NoResponse
        /\ invoked' = NoCalls
        /\ UNCHANGED <<sessions, now, MAX_TURNS, deliveries>>

\* the event loop runs the handler of one pending request to its end
Run(slot) ==
    LET request == inflight[slot].request
    IN  /\ slot \in Pending
        /\ inflight' = [inflight EXCEPT ![slot].done = TRUE]
        /\ CASE request.op = "message" ->
                   HandleMessage(request.id, request.api_key, request.message)
             [] request.op = "get" -> GetSessionInfo(request.id, request.api_key)
             [] request.op = "delete" -> DeleteSession(request.id, request.api_key)

\* the responses are sent
Respond ==
    /\ inflight # NoRequests
    /\ Pending = {}
    /\ inflight' = NoRequests
    /\ response' = NoResponse
    /\ invoked' = NoCalls
    /\ UNCHANGED <<sessions, now, MAX_TURNS, deliveries>>

LoopNext ==
    \/ \E request \in Requests : Accept(request)
    \/ \E slot \in 1..MaxInflight : Run(slot)
    \/ Respond
    \/ Tick /\ UNCHANGED inflight

LoopSpec == LoopInit /\ [][LoopNext]_vars


\* ------------------------------------------------------------------------
\* Properties
\* ------------------------------------------------------------------------
Categories == DOMAIN EmptyIntelligence

\* the step is a handled POST /message for id
Handled(id) == response'.kind = "message" /\ response'.sessionId = id

\* the step is an authenticated GET /session/{id}
LookedUp(id) ==
    /\ response'.sessionId = id
    /\ \/ response'.kind = "session"
       \/ response'.kind = "error" /\ response'.status = 404

\* id names the same record before and after the step
SameRecord(id) ==
    /\ id \in DOMAIN sessions
    /\ id \in DOMAIN sessions'
    /\ ~(Handled(id) /\ invoked'.created)

\* C1: for one session record, whatever POST /message calls are made for
\* its id, send_final_result is invoked at most once.
C1_AtMostOneDelivery == \A id \in SessionIds : deliveries[id] <= 1

\* C2: agentNotes is empty until the first report delivery of the record
\* and, once non-empty, is never changed by a later handled message.
C2_NotesSetOnce ==
    [][\A id \in SessionIds :
          /\ (id \in DOMAIN sessions' /\ deliveries'[id] = 0)
                 => sessions'[id].agentNotes = ""
          /\ (SameRecord(id) /\ sessions[id].agentNotes # "")
                 => sessions'[id].agentNotes = sessions[id].agentNotes]_vars

\* C3: once scamDetected is true it stays true after every later operation
\* on the same record.
C3_ScamFlagStays ==
    [][\A id \in SessionIds :
          (SameRecord(id) /\ sessions[id].scamDetected)
              => sessions'[id].scamDetected]_vars

\* a confirmed session has handled a further message
C3_Witness ==
    \E id \in DOMAIN sessions :
        /\ sessions[id].scamDetected
        /\ sessions[id].totalMessages >= 4
        /\ response.kind = "message" /\ response.sessionId = id

\* C4: once the record is scam-confirmed, no later POST /message for it
\* invokes the scorer (nor, through it, the classifier), whatever the text.
C4_NoScoringAfterConfirmed ==
    [][\A id \in SessionIds :
          (SameRecord(id) /\ sessions[id].scamDetected /\ Handled(id))
              => (~invoked'.scorer /\ ~invoked'.classifier)]_vars

\* a message below the heuristic threshold was handled on a confirmed session
\* without scoring
C4_Witness ==
    \E id \in DOMAIN sessions :
        LET h == sessions[id].conversationHistory
        IN  /\ response.kind = "message" /\ response.sessionId = id
            /\ ~invoked.scorer
            /\ Len(h) >= 4
            /\ h[Len(h) - 1].text = T_PAY
            /\ heuristic_scam_score(T_PAY).score < HEURISTIC_SCORE_THRESHOLD

\* C5: once the stage of a record is stall it is stall after every later
\* handled message.
C5_StallStays ==
    [][\A id \in SessionIds :
          (SameRecord(id) /\ sessions[id].stage = "stall")
              => sessions'[id].stage = "stall"]_vars

\* C6: in every category the values after a step include the values before
\* it, as long as the record lives.
C6_IntelligenceGrows ==
    [][\A id \in SessionIds :
          SameRecord(id) =>
              \A c \in Categories :
                  ListToSet(sessions[id].extractedIntelligence[c])
                      \subseteq ListToSet(sessions'[id].extractedIntelligence[c])]_vars

\* a category holds values merged from two different messages
C6_Witness ==
    \E id \in DOMAIN sessions :
        /\ Len(sessions[id].extractedIntelligence.phoneNumbers) >= 2
        /\ Len(sessions[id].extractedIntelligence.upiIds) >= 1

\* C7: no category of a session's intelligence holds a value twice.
C7_NoDuplicates ==
    \A id \in DOMAIN sessions :
        \A c \in Categories : NoDuplicates(sessions[id].extractedIntelligence[c])

\* the text with a repeated phone number was extracted in two turns
C7_Witness ==
    \E id \in DOMAIN sessions :
        LET h == sessions[id].conversationHistory
        IN  /\ Len(h) >= 4
            /\ h[1].text = T_PAY /\ h[2].sender = "user"
            /\ h[3].text = T_PAY /\ h[4].sender = "user"
            /\ Len(FindPhones(T_PAY)) = 2
            /\ sessions[id].extractedIntelligence.phoneNumbers # <<>>

\* C8: totalMessages equals the length of the history.
C8_CountIsHistoryLength ==
    \A id \in DOMAIN sessions :
        sessions[id].totalMessages = Len(sessions[id].conversationHistory)

\* a history with incoming messages and agent replies
C8_Witness ==
    \E id \in DOMAIN sessions :
        LET h == sessions[id].conversationHistory
        IN  /\ Len(h) >= 3
            /\ \E i, j \in 1..Len(h) : h[i].sender = "user" /\ h[j].sender = "scammer"

\* C9: a lookup of a session older than the timeout evicts it (GET answers
\* 404; POST /message works on a fresh record, which then holds this turn
\* only); a session not older than the timeout is returned as it is.
C9_LazyExpiry ==
    [][\A id \in SessionIds :
          id \in DOMAIN sessions =>
            LET old == sessions[id]
                tooOld == now - old.createdAt > SESSION_TIMEOUT_MINUTES
            IN  /\ LookedUp(id) =>
                     IF tooOld
                     THEN response'.status = 404 /\ id \notin DOMAIN sessions'
                     ELSE /\ response'.status = 200
                          /\ response'.body = Snapshot(old)
                          /\ sessions' = sessions
                /\ Handled(id) =>
                     LET new == sessions'[id]
                         fresh == [sessionId |-> id, conversationHistory |-> <<>>,
                                   stage |-> "trust", memory |-> EmptyDict,
                                   totalMessages |-> 0, scamDetected |-> FALSE,
                                   extractedIntelligence |-> EmptyIntelligence,
                                   suspiciousKeywords |-> <<>>, agentNotes |-> "",
                                   createdAt |-> now]
                         first == new.conversationHistory[1]
                     IN  IF tooOld
                         THEN /\ invoked'.created
                              /\ new.createdAt = now
                              /\ new.totalMessages <= 2
                              /\ Len(new.conversationHistory) = new.totalMessages
                              /\ ListToSet(new.extractedIntelligence.upiIds)
                                   \subseteq ListToSet(Extracted[first.text].upi_ids)
                              /\ ~new.scamDetected => new = add_message(fresh, first)
                         ELSE /\ ~invoked'.created
                              /\ new.createdAt = old.createdAt
                              /\ SubSeq(new.conversationHistory, 1,
                                        Len(old.conversationHistory))
                                   = old.conversationHistory]_vars

\* a POST /message found the record older than the timeout and replaced it
C9_Witness ==
    \E id \in DOMAIN sessions :
        /\ response.kind = "message" /\ response.sessionId = id
        /\ invoked.expired /\ invoked.created
        /\ sessions[id].createdAt = now
        /\ now > SESSION_TIMEOUT_MINUTES

\* C10: a handled message that leaves the session unconfirmed is answered
\* with the canned acknowledgment, calls neither extractor, generator nor
\* report sink, and changes the record only by appending the message.
C10_RejectedFrame ==
    [][\A id \in SessionIds :
          (Handled(id) /\ ~sessions'[id].scamDetected) =>
            LET old == IF invoked'.created THEN create_session(id, now)
                       ELSE sessions[id]
                new == sessions'[id]
                n == Len(old.conversationHistory)
            IN  /\ response'.body.reply = CANNED_REPLY
                /\ invoked'.extractor = 0
                /\ ~invoked'.generator
                /\ invoked'.payloads = <<>>
                /\ ~old.scamDetected
                /\ new.extractedIntelligence = old.extractedIntelligence
                /\ new.stage = old.stage
                /\ new.agentNotes = old.agentNotes
                /\ Len(new.conversationHistory) = n + 1
                /\ SubSeq(new.conversationHistory, 1, n) = old.conversationHistory
                /\ new.conversationHistory[n + 1].sender # "user"]_vars

\* two messages in a row were rejected, the second carrying entities and a
\* keyword
C10_Witness ==
    \E id \in DOMAIN sessions :
        LET h == sessions[id].conversationHistory
        IN  /\ response.kind = "message" /\ response.sessionId = id
            /\ response.body.reply = CANNED_REPLY
            /\ ~sessions[id].scamDetected
            /\ Len(h) >= 2
            /\ h[Len(h)].text = T_PAY
            /\ invoked.classifier

\* C11: should_send_callback returns true exactly when the session is
\* scam-confirmed, has at least 3 messages, and some intelligence category is
\* non-empty or the message count has reached MAX_TURNS; so it is false for
\* a confirmed session with 2 messages.
C11_ShouldFinalizeContract ==
    Returned("should_send_callback") =>
        LET s == response.body.args.session
        IN  /\ response.body.result <=>
                 /\ s.scamDetected
                 /\ s.totalMessages >= 3
                 /\ \/ \E c \in Categories : s.extractedIntelligence[c] # <<>>
                    \/ s.totalMessages >= MAX_TURNS
            /\ (s.scamDetected /\ s.totalMessages = 2) => ~response.body.result

\* true for a confirmed session with its 3rd message and one non-empty
\* category, below the maximum of turns
C11_Witness ==
    /\ Returned("should_send_callback")
    /\ response.body.result
    /\ response.body.args.session.totalMessages = 3
    /\ response.body.args.session.totalMessages < MAX_TURNS
    /\ Cardinality({c \in Categories :
           response.body.args.session.extractedIntelligence[c] # <<>>}) = 1

\* C12: determine_conversation_stage returns trust up to 2 messages;
\* otherwise extract up to 6 messages or when the payment-handle, URL and
\* bank-account lists are all empty; otherwise stall.  Phone numbers and
\* emails do not count.
C12_StageRule ==
    Returned("determine_conversation_stage") =>
        LET n == response.body.args.message_count
            e == response.body.args.extracted_intel
        IN  response.body.result =
                IF n <= 2 THEN "trust"
                ELSE IF \/ n <= 6
                        \/ e.upi_ids = <<>> /\ e.urls = <<>> /\ e.bank_accounts = <<>>
                     THEN "extract"
                     ELSE "stall"

\* more than 6 messages, a phone number and an email but nothing critical:
\* extract
C12_Witness ==
    /\ Returned("determine_conversation_stage")
    /\ response.body.args.message_count > 6
    /\ response.body.args.extracted_intel.phone_numbers # <<>>
    /\ response.body.args.extracted_intel.emails # <<>>
    /\ response.body.result = "extract"

\* C13: when the keyword score of the text is at least 6, predict_scam
\* returns is_scam with method heuristic and the classifier is not called.
C13_HeuristicDecides ==
    (/\ Returned("predict_scam")
     /\ heuristic_scam_score(response.body.args.text).score >= 6)
        => /\ response.body.result.is_scam
           /\ response.body.result.method = "heuristic"
           /\ ~invoked.classifier
           /\ response.body.result.llm_result = <<>>

\* a text scoring exactly 6, with a classifier that would have answered
\* Legitimate
C13_Witness ==
    /\ Returned("predict_scam")
    /\ heuristic_scam_score(response.body.args.text).score = 6
    /\ response.body.args.run.kind = "json"
    /\ response.body.args.run.label = "Legitimate"
    /\ response.body.result.is_scam

\* C14: when the classifier run fails (timeout, exception, output that is
\* no JSON object or carries no number) predict_scam returns: the classifier
\* answer it works with is Uncertain with confidence 0, the verdict is
\* not-scam, the method heuristic_low when the score is above 0 and none
\* otherwise.
C14_ClassifierFailure ==
    (/\ Returned("predict_scam")
     /\ invoked.classifier
     /\ response.body.args.run.kind
            \in {"timeout", "error", "garbage", "bad_confidence"})
        => /\ Len(response.body.result.llm_result) = 1
           /\ response.body.result.llm_result[1].label = "Uncertain"
           /\ response.body.result.llm_result[1].confidence = 0
           /\ ~response.body.result.is_scam
           /\ response.body.result.method =
                 IF heuristic_scam_score(response.body.args.text).score > 0
                 THEN "heuristic_low" ELSE "none"

\* a text with a keyword, below the threshold, scored while the classifier
\* timed out
C14_Witness ==
    /\ Returned("predict_scam")
    /\ response.body.args.run.kind = "timeout"
    /\ response.body.args.text = T_FIVE
    /\ response.body.result.method = "heuristic_low"

\* C15: an engaged turn that ends with the session confirmed and its message
\* count at MAX_TURNS or above, and that found agentNotes empty, has called
\* send_final_result and set agentNotes, also when should_send_callback is
\* false for the session.
C15_MaxTurnsFinalizes ==
    [][\A id \in SessionIds :
          (/\ Handled(id)
           /\ sessions'[id].scamDetected
           /\ sessions'[id].totalMessages >= MAX_TURNS
           /\ (IF invoked'.created THEN "" ELSE sessions[id].agentNotes) = "")
              => /\ invoked'.payloads # <<>>
                 /\ sessions'[id].agentNotes # ""]_vars

\* with MAX_TURNS below 3 a report was sent for a session for which
\* should_send_callback is false
C15_Witness ==
    \E id \in DOMAIN sessions :
        /\ response.kind = "message" /\ response.sessionId = id
        /\ MAX_TURNS < MIN_CALLBACK_MESSAGES
        /\ sessions[id].totalMessages >= MAX_TURNS
        /\ ~should_send_callback(sessions[id], MAX_TURNS)
        /\ invoked.payloads # <<>>
        /\ sessions[id].agentNotes # ""

C17_DeleteUnknownIs404 ==
    [][\A id \in SessionIds :
          id \notin DOMAIN sessions
              => ~(response'.kind = "deleted" /\ response'.sessionId = id)]_vars

\* C18: whatever the POST to the report sink ends in, the request that made
\* it is answered success with the agent reply, and each send_final_result
\* call has a boolean result, True exactly when the POST succeeded.
C18_DeliveryNeverFailsRequest ==
    [][\A id \in SessionIds :
          (Handled(id) /\ invoked'.payloads # <<>>)
              => LET h == sessions'[id].conversationHistory
                 IN  /\ response'.status = 200
                     /\ response'.body.status = "success"
                     /\ h[Len(h)].sender = "user"
                     /\ response'.body.reply = h[Len(h)].text
                     /\ Len(invoked'.results) = Len(invoked'.payloads)
                     /\ \A i \in 1..Len(invoked'.results) :
                            invoked'.results[i] \in BOOLEAN
                     /\ \A delivery \in DeliveryRuns :
                            send_final_result(delivery) <=> delivery = "ok"]_vars

\* a request whose report delivery failed was answered with the reply
C18_Witness ==
    \E id \in DOMAIN sessions :
        /\ response.kind = "message" /\ response.sessionId = id
        /\ invoked.results = <<FALSE>>
        /\ response.body.status = "success"
        /\ response.body.reply = FALLBACK_REPLY

C20_MergeAlgebra ==
    Returned("merge_intelligence") =>
        LET A == response.body.args.existing
            B == response.body.args.new
            AsSets(d) == [key \in MergeKeys |-> ListToSet(GetList(d, key))]
            NoKeys == [key \in {} |-> <<>>]
            EmptyLists == [key \in MergeKeys |-> <<>>]
        IN  /\ AsSets(response.body.result) = AsSets(merge_intelligence(B, A))
            /\ AsSets(merge_intelligence(A, A)) = AsSets(A)
            /\ AsSets(merge_intelligence(A, NoKeys)) = AsSets(A)
            /\ AsSets(merge_intelligence(A, EmptyLists)) = AsSets(A)

\* two dicts were merged that hold different values under a common key, one
\* of them twice
C20_Witness ==
    /\ Returned("merge_intelligence")
    /\ \E key \in DOMAIN response.body.args.existing
                    \cap DOMAIN response.body.args.new :
          LET a == response.body.args.existing[key]
              b == response.body.args.new[key]
          IN  /\ ListToSet(a) \ ListToSet(b) # {}
              /\ ListToSet(b) \ ListToSet(a) # {}
              /\ ~NoDuplicates(a)
              /\ Len(response.body.result[key]) = 2

\* C21: the bank accounts the extractor returns for a text hold none of the
\* phone numbers it returns for that text, and after the merge into the
\* session every one of these phone numbers is a phone number of the session
\* and is a bank account of the session only if it was one before.
C21_AccountsNotPhones ==
    Returned("extract_and_merge") =>
        LET extracted == response.body.result.extracted
            old == response.body.args.session.extractedIntelligence
            new == response.body.result.session.extractedIntelligence
            phones == ListToSet(extracted.phone_numbers)
        IN  /\ ListToSet(extracted.bank_accounts) \cap phones = {}
            /\ \A v \in phones :
                  /\ v \in ListToSet(new.phoneNumbers)
                  /\ v \in ListToSet(new.bankAccounts)
                        => v \in ListToSet(old.bankAccounts)

\* a text whose phone number the account pattern matches too, next to an
\* account number that is kept
C21_Witness ==
    /\ Returned("extract_and_merge")
    /\ LET extracted == response.body.result.extracted
           new == response.body.result.session.extractedIntelligence
       IN  /\ \E v \in ListToSet(extracted.phone_numbers) :
                 v \in ListToSet(FindBankAccounts(response.body.args.text))
           /\ extracted.bank_accounts # <<>>
           /\ ListToSet(extracted.bank_accounts) \subseteq ListToSet(new.bankAccounts)

\* the keywords the heuristic finds in each text
Matched == [t \in Texts |-> heuristic_scam_score(t).matched_keywords]

\* C22: when a message is handled on a record that was already confirmed as
\* a scam, the payment handles the extractor finds in the message are in the
\* record's upiIds and the scam keywords the message contains are in its
\* suspiciousKeywords after the turn.
C22_ConfirmedTurnKeepsHandlesAndKeywords ==
    [][\A id \in SessionIds :
          Handled(id) /\ SameRecord(id) /\ sessions[id].scamDetected =>
              LET history == sessions'[id].conversationHistory
                  text == history[Len(history) - 1].text
                  intel == sessions'[id].extractedIntelligence
              IN  /\ ListToSet(Extracted[text].upi_ids)
                        \subseteq ListToSet(intel.upiIds)
                  /\ ListToSet(Matched[text])
                        \subseteq ListToSet(intel.suspiciousKeywords)]_vars

\* C24: the confidence predict_scam returns lies within [0, 1], whatever the
\* heuristic score of the text and whatever label and confidence the
\* classifier answers.
C24_ConfidenceInUnitInterval ==
    Returned("predict_scam") =>
        /\ response.body.result.confidence >= 0
        /\ response.body.result.confidence <= ConfOfPercent(100)

\* the number of incoming messages in a history
Incoming(history) ==
    Cardinality({i \in 1..Len(history) : history[i].sender \in Senders})

\* the first message of the record was answered by the agent: the record
\* was confirmed on its first message
ConfirmedAtFirst(session) ==
    /\ Len(session.conversationHistory) >= 2
    /\ session.conversationHistory[2].sender = "user"

\* C25: a handled message on a confirmed record appends exactly two
\* messages to its history, the incoming one and then the agent's reply, and
\* a rejected message appends exactly the incoming one; a record confirmed on
\* its first message has messageCount 2n after n handled messages, and its
\* snapshot reports scamDetected true and that count.
C25_TwoMessagesPerEngagedTurn ==
    [][\A id \in SessionIds :
          /\ Handled(id) =>
                LET old == IF SameRecord(id)
                           THEN sessions[id].conversationHistory ELSE <<>>
                    n == Len(old)
                    new == sessions'[id]
                    history == new.conversationHistory
                IN  /\ Prefix(history, n) = old
                    /\ history[n + 1] \in Messages
                    /\ new.totalMessages = Len(history)
                    /\ IF new.scamDetected
                       THEN /\ Len(history) = n + 2
                            /\ history[n + 2].sender = "user"
                            /\ history[n + 2].text = response'.body.reply
                       ELSE /\ Len(history) = n + 1
                            /\ response'.body.reply = CANNED_REPLY
          /\ id \in DOMAIN sessions' /\ ConfirmedAtFirst(sessions'[id]) =>
                /\ sessions'[id].scamDetected
                /\ sessions'[id].totalMessages
                       = 2 * Incoming(sessions'[id].conversationHistory)
          /\ LookedUp(id) /\ response'.kind = "session"
                /\ ConfirmedAtFirst(sessions'[id]) =>
                /\ response'.body.scamDetected
                /\ response'.body.totalMessages
                       = 2 * Incoming(sessions'[id].conversationHistory)]_vars

\* the snapshot of a record confirmed on its first message, after three
\* handled messages
C25_Witness ==
    /\ response.kind = "session"
    /\ response.sessionId \in DOMAIN sessions
    /\ ConfirmedAtFirst(sessions[response.sessionId])
    /\ Incoming(sessions[response.sessionId].conversationHistory) = 3
    /\ response.body.scamDetected
    /\ response.body.totalMessages = 6

\* the intelligence accumulated on a session, under the extractor's keys
Accumulated(session) ==
    [upi_ids |-> session.extractedIntelligence.upiIds,
     urls |-> session.extractedIntelligence.phishingLinks,
     ifsc_codes |-> <<>>,
     phone_numbers |-> session.extractedIntelligence.phoneNumbers,
     bank_accounts |-> session.extractedIntelligence.bankAccounts,
     emails |-> <<>>]

\* C26: after every engaged turn the stage of the session is the stage rule
\* applied to the messageCount at staging time (the incoming message counted,
\* the reply not yet) and to the intelligence accumulated on the session over
\* all its turns.
C26_StageFromAccumulated ==
    [][\A id \in SessionIds :
          Handled(id) /\ sessions'[id].scamDetected =>
              sessions'[id].stage =
                  determine_conversation_stage(sessions'[id].totalMessages - 1,
                                               Accumulated(sessions'[id]))]_vars

\* C27: after an engaged turn every value the extractor returned for the
\* incoming message is in the session's intelligence: the payment handles in
\* upiIds, the URLs in phishingLinks, the phone numbers in phoneNumbers, the
\* account numbers in bankAccounts, and the e-mail addresses in one of its
\* lists.
C27_EveryExtractedValueStored ==
    Returned("extract_and_merge") =>
        LET extracted == response.body.result.extracted
            intel == response.body.result.session.extractedIntelligence
            stored == UNION {ListToSet(intel[c]) : c \in Categories}
        IN  /\ ListToSet(extracted.upi_ids) \subseteq ListToSet(intel.upiIds)
            /\ ListToSet(extracted.urls) \subseteq ListToSet(intel.phishingLinks)
            /\ ListToSet(extracted.phone_numbers)
                  \subseteq ListToSet(intel.phoneNumbers)
            /\ ListToSet(extracted.bank_accounts)
                  \subseteq ListToSet(intel.bankAccounts)
            /\ ListToSet(extracted.emails) \subseteq stored

\* the request to the reply model failing: the reply is the fallback
\* sentence, which names no entity
NoReply == [kind |-> "error", text |-> ""]

\* C28: whatever entities the agent's reply contains, the session's
\* intelligence, stage, scamDetected flag and notes after the engaged turn
\* and the reports it sends are those of the same turn with a reply that
\* contains none; the intelligence is that of the incoming message merged
\* into the session.
C28_ReplyExtractionIsDiagnostic ==
    Returned("engaged_turn") =>
        LET args == response.body.args
            result == response.body.result
            e == Engage(args.session, args.message, NoReply)
            f == Finalize(e.session, MAX_TURNS)
        IN  /\ Extracted[e.reply] = NoEntities
            /\ result.session.extractedIntelligence
                  = f.session.extractedIntelligence
            /\ result.session.extractedIntelligence
                  = update_intelligence(args.session, Extracted[args.message.text])
                        .extractedIntelligence
            /\ result.session.stage = f.session.stage
            /\ result.session.scamDetected = f.session.scamDetected
            /\ result.session.agentNotes = f.session.agentNotes
            /\ result.payloads = f.payloads

\* a turn whose reply names a payment handle and a phone number that the
\* session does not hold, and which sends a report
C28_Witness ==
    /\ Returned("engaged_turn")
    /\ LET result == response.body.result
           found == Extracted[result.reply]
       IN  /\ found.upi_ids # <<>>
           /\ found.phone_numbers # <<>>
           /\ ListToSet(found.upi_ids)
                 \cap ListToSet(result.session.extractedIntelligence.upiIds) = {}
           /\ result.payloads # <<>>

\* C30: the activeSessions number GET /stats returns is the number of
\* sessions of the store whose age does not exceed the expiry timeout; a
\* session that expired and was not looked up since is not counted.
C30_CountsActiveOnly ==
    response.kind = "stats" =>
        response.body.activeSessions =
            Cardinality({id \in DOMAIN sessions : ~Expired(sessions[id], now)})

\* the step runs the handler of the request in slot
Ran(slot) ==
    /\ slot \in DOMAIN inflight
    /\ ~inflight[slot].done
    /\ slot \in DOMAIN inflight'
    /\ inflight'[slot].done

\* every request in flight has been served
AllServed(loop) == loop # NoRequests /\ \A slot \in DOMAIN loop : loop[slot].done

\* C23: POST /message requests that are in flight together for one id are
\* served one after the other on one record: each handler finds the history
\* the earlier ones left, appends its own message (and the reply) to it and
\* loses none, creates a record only when the store holds no live one for
\* the id, and once all are served messageCount is the length of the
\* history.
C23_ConcurrentMessagesExclusive ==
    [][/\ \A slot \in 1..MaxInflight :
             Ran(slot) /\ inflight[slot].request.op = "message" =>
                 LET request == inflight[slot].request
                     id == request.id
                     live == id \in DOMAIN sessions /\ ~Expired(sessions[id], now)
                     old == IF live THEN sessions[id].conversationHistory ELSE <<>>
                     n == Len(old)
                     new == sessions'[id]
                     history == new.conversationHistory
                 IN  /\ invoked'.created = ~live
                     /\ live => new.createdAt = sessions[id].createdAt
                     /\ Prefix(history, n) = old
                     /\ history[n + 1] = request.message
                     /\ Len(history) = n + (IF new.scamDetected THEN 2 ELSE 1)
       /\ AllServed(inflight') =>
             \A id \in DOMAIN sessions' :
                 sessions'[id].totalMessages
                     = Len(sessions'[id].conversationHistory)]_vars

\* two requests for an id the store did not hold, in flight together and
\* both served, the later accepted one first: one record holds both messages
C23_Witness ==
    /\ AllServed(inflight)
    /\ DOMAIN inflight = {1, 2}
    /\ inflight[1].request.op = "message"
    /\ inflight[2].request.op = "message"
    /\ inflight[1].request.id = inflight[2].request.id
    /\ inflight[1].request.message # inflight[2].request.message
    /\ LET id == inflight[1].request.id
       IN  /\ id \in DOMAIN sessions
           /\ Incoming(sessions[id].conversationHistory) = 2
           /\ sessions[id].conversationHistory[1] = inflight[2].request.message
           /\ \E i \in 2..Len(sessions[id].conversationHistory) :
                 sessions[id].conversationHistory[i] = inflight[1].request.message
           /\ sessions[id].totalMessages = Len(sessions[id].conversationHistory)

\* C29: a DELETE and a POST /message for one id that are in flight together
\* leave the store as one of their two serial orders does: the served
\* DELETE leaves no record of the id, a record of the id enters the store
\* only through a handler that creates it and then holds that handler's
\* message alone, a lookup of an expired record leaves none of it, and when
\* both requests are served the store holds either no record of the id
\* (message, then delete) or the fresh record of the message (delete, then
\* message).
C29_DeleteAndHandlerSerialize ==
    [][\A id \in SessionIds :
          /\ \A slot \in 1..MaxInflight :
                Ran(slot) /\ inflight[slot].request.id = id =>
                    LET request == inflight[slot].request
                        stale == id \in DOMAIN sessions /\ Expired(sessions[id], now)
                    IN  /\ request.op = "delete" => id \notin DOMAIN sessions'
                        /\ request.op = "get" /\ stale => id \notin DOMAIN sessions'
                        /\ request.op = "message" /\ stale =>
                              /\ invoked'.created
                              /\ sessions'[id].createdAt = now
                              /\ sessions'[id].conversationHistory[1] = request.message
          /\ id \notin DOMAIN sessions /\ id \in DOMAIN sessions' =>
                \E slot \in 1..MaxInflight :
                    /\ Ran(slot)
                    /\ inflight[slot].request.op = "message"
                    /\ inflight[slot].request.id = id
                    /\ invoked'.created
                    /\ sessions'[id].conversationHistory[1]
                          = inflight[slot].request.message
                    /\ Incoming(sessions'[id].conversationHistory) = 1
          /\ \A d, m \in 1..MaxInflight :
                /\ AllServed(inflight')
                /\ DOMAIN inflight' = {d, m}
                /\ inflight'[d].request.op = "delete"
                /\ inflight'[m].request.op = "message"
                /\ inflight'[d].request.id = id
                /\ inflight'[m].request.id = id
                /\ id \in DOMAIN sessions'
                => /\ sessions'[id].conversationHistory[1]
                         = inflight'[m].request.message
                   /\ Incoming(sessions'[id].conversationHistory) = 1]_vars

\* a DELETE accepted before a POST /message for the same id, served after
\* it: the record the handler stored is gone
C29_Witness ==
    /\ AllServed(inflight)
    /\ DOMAIN inflight = {1, 2}
    /\ inflight[1].request.op = "delete"
    /\ inflight[2].request.op = "message"
    /\ inflight[1].request.id = inflight[2].request.id
    /\ response.kind = "deleted"
    /\ inflight[1].request.id \notin DOMAIN sessions
    /\ deliveries[inflight[1].request.id] > 0

\* C31: every report that is delivered says scamDetected true and is the
\* report of a session whose flag is set; a handled message that leaves the
\* session unconfirmed delivers none, whatever messages came before.
C31_ReportsOnlyConfirmed ==
    /\ \A i \in 1..Len(invoked.payloads) :
          /\ invoked.payloads[i].scamDetected
          /\ invoked.payloads[i].sessionId \in DOMAIN sessions
          /\ sessions[invoked.payloads[i].sessionId].scamDetected
    /\ \A id \in DOMAIN sessions :
          response.kind = "message" /\ response.sessionId = id
          /\ ~sessions[id].scamDetected => invoked.payloads = <<>>

\* a report for a session whose first message was rejected as no scam
C31_Witness ==
    /\ invoked.payloads # <<>>
    /\ LET history == sessions[invoked.payloads[1].sessionId].conversationHistory
       IN  /\ history[1].text = T_PAY
           /\ history[2].sender \in Senders

\* C32: the handling of one message calls the report delivery at most once;
\* a delivery leaves the session's notes non-empty, which is what keeps the
\* max-turns branch of the same request from delivering again.
C32_OneDeliveryPerRequest ==
    /\ Len(invoked.payloads) <= 1
    /\ Len(invoked.results) = Len(invoked.payloads)
    /\ \A i \in 1..Len(invoked.payloads) :
          /\ invoked.payloads[i].agentNotes # ""
          /\ sessions[invoked.payloads[i].sessionId].agentNotes # ""

\* the shouldFinalize branch delivered in a request that also reached the
\* maximum number of turns
C32_Witness ==
    /\ Len(invoked.payloads) = 1
    /\ LET session == sessions[invoked.payloads[1].sessionId]
       IN  /\ session.totalMessages >= MAX_TURNS
           /\ should_send_callback(session, MAX_TURNS)

\* C33: in every state a session whose flag is not set holds no
\* intelligence in any category, suspiciousKeywords included, is at stage
\* trust and has no notes, however many messages it has received.
C33_UnconfirmedHoldsNothing ==
    \A id \in DOMAIN sessions :
        ~sessions[id].scamDetected =>
            /\ \A c \in Categories : sessions[id].extractedIntelligence[c] = <<>>
            /\ sessions[id].stage = "trust"
            /\ sessions[id].agentNotes = ""

\* an unconfirmed session after several messages that contain a keyword and
\* a phone number
C33_Witness ==
    \E id \in DOMAIN sessions :
        /\ ~sessions[id].scamDetected
        /\ sessions[id].totalMessages >= 3
        /\ \A i \in 1..3 : sessions[id].conversationHistory[i].text = T_PAY
        /\ Matched[T_PAY] # <<>>
        /\ Extracted[T_PAY].phone_numbers # <<>>

====
